---- MODULE Spec2Model ----
(***************************************************************************)
(* State machine of the lilac session-lock client (src/src/main.rs).       *)
(*                                                                         *)
(* The client is single threaded.  One action of this module is one        *)
(* handler invocation (a Dispatch<..>::event call made by                  *)
(* dispatch_pending or by the start-up roundtrip) or one step of main's    *)
(* loop.  The compositor (the peer) is the environment: it chooses which   *)
(* event is dispatched next, and it holds the buffers that were committed  *)
(* to it and that it has not released yet.                                 *)
(***************************************************************************)
EXTENDS Integers, Sequences, FiniteSets, TLC

(***************************************************************************)
(* Bounds of the model and program constants.                              *)
(***************************************************************************)

\* Configure events the peer sends over a session (all lock-surfaces together).
MaxConfigures == 2

\* Events one dispatch_pending call delivers at most.
MaxBatch == 2

\* Sleeps of main's loop followed for one armed deadline; past them time passes
\* in the steps of ElapseSteps only.
MaxSleeps == 2

\* Calls of fill_solid_color on one pool followed between two of its commits.
MaxFills == 2

\* [BufferSlot; 2]
NumSlots == 2

\* Fallback dimensions of a configure that proposes 0.
FallbackWidth == 1920

FallbackHeight == 1080

\* Duration::from_secs(5), in milliseconds.
AutoUnlockMs == 5000

\* Duration::from_millis(16)
PollQuantumMs == 16

\* i32::MAX, the largest value u32 -> i32 try_into accepts.
I32Max == 2147483647

\* Peer-assigned names of the wl_output globals.
OutputNames == {7, 8}

\* Interfaces a wl_registry.global event can advertise.
Interfaces ==
    {"ext_session_lock_manager_v1", "wl_compositor", "wl_shm", "wl_output", "wl_seat"}

\* Widths and heights a configure event proposes (u32).  A proposal above i32::MAX
\* makes the handler panic where a failed allocation does (after ack_configure).
Widths == {0, 800}

Heights == {0, 600}

\* Milliseconds the clock advances between two steps of the program.
ElapseSteps == {4976, 5000}

\* Events that no handler recognises: those of the objects whose handlers only log
\* (lock manager, compositor, output, surface, shm, shm pool: the six handlers have
\* the same body, one label stands for them) and the fall-through arms of the
\* buffer, the lock-surface and the lock handlers.
UnknownSources ==
    {"log_only_object", "buffer_other", "lock_surface_other", "lock_other"}

\* Option<T>: None, Some(x) and the value of a Some.
None == <<>>

Some(x) == <<x>>

Get(o) == o[1]

Slots == 0 .. (NumSlots - 1)

Min(S) == CHOOSE x \in S : \A y \in S : x <= y

VARIABLES
    pc,                    \* position of main: roundtrip, read, dispatch, redraw, check, sleep, ok, err, panic
    lock_manager,          \* Locker.lock_manager is Some
    compositor,            \* Locker.compositor is Some
    shared_memory,         \* Locker.shared_memory is Some
    lock,                  \* Locker.lock is Some
    monitors,              \* Locker.monitors: name -> Monitor
    state,                 \* Locker.state
    auto_unlock_deadline,  \* None, or Some(milliseconds from now to the deadline; 0: reached)
    auto_unlock_sent,      \* Locker.auto_unlock_sent
    dispatched,            \* events delivered by the running dispatch_pending call
    serials,               \* configure events received so far (the last serial)
    peer_held,             \* buffers committed to the peer and not released by it
    peer_surfaces,         \* lock-surfaces the peer knows (created by get_lock_surface)
    out,                   \* the effects of the last step, in program order
    unlocks,               \* unlock_and_destroy requests issued so far
    sleeps,                \* sleeps taken since the deadline was armed
    late                   \* milliseconds slept past the armed deadline with the unlock pending

vars ==
    <<pc, lock_manager, compositor, shared_memory, lock, monitors, state,
      auto_unlock_deadline, auto_unlock_sent, dispatched, serials, peer_held,
      peer_surfaces, out, unlocks, sleeps, late>>

(***************************************************************************)
(* Monitor, BufferState, BufferSlot, BufferTag.                            *)
(***************************************************************************)

\* Monitor::default().with_name(n).with_output(o)
NewMonitor(n) ==
    [name |-> n, output |-> TRUE, surface |-> None, lock_surface |-> None,
     dimensions |-> <<0, 0>>, buffer_state |-> None]

\* The wl_buffer of slot i of a pool: its BufferTag and the configure that made it.
BufferOf(bs, i) == [monitor_name |-> bs.monitor_name, index |-> i, serial |-> bs.serial]

\* A new pool whose slots start in use.
NewBufferStateInUse(name, serial) ==
    [monitor_name |-> name, serial |-> serial,
     in_use |-> [i \in Slots |-> TRUE], dirty |-> TRUE, next_index |-> 0, fills |-> 0]

\* BufferState::new followed by nothing else: two free slots, dirty, cursor 0.
\* fills counts the calls of fill_solid_color since the pool's last successful commit.
NewBufferState(name, serial) ==
    [monitor_name |-> name, serial |-> serial,
     in_use |-> [i \in Slots |-> FALSE], dirty |-> TRUE, next_index |-> 0, fills |-> 0]

\* BufferState::fill_solid_color
fill_solid_color(bs) == [bs EXCEPT !.dirty = TRUE, !.fills = bs.fills + 1]

\* A slot selection that takes the slot under the cursor whatever its in_use flag.
acquire_ignoring_in_use(bs) ==
    [index |-> Some(bs.next_index),
     bs |-> [bs EXCEPT !.next_index = (bs.next_index + 1) % NumSlots]]

\* A slot selection that starts at slot 0 whatever the cursor.
acquire_lowest_free(bs) ==
    LET free == {i \in 0 .. (NumSlots - 1) : ~bs.in_use[i]}
    IN  IF free = {}
        THEN [index |-> None, bs |-> bs]
        ELSE [index |-> Some(Min(free)),
              bs |-> [bs EXCEPT !.next_index = (Min(free) + 1) % NumSlots]]

\* A slot selection that moves the cursor on also when it finds no free slot.
acquire_advancing_when_full(bs) ==
    LET free == {o \in 0 .. (NumSlots - 1) : ~bs.in_use[(bs.next_index + o) % NumSlots]}
    IN  IF free = {}
        THEN [index |-> None, bs |-> [bs EXCEPT !.next_index = (bs.next_index + 1) % NumSlots]]
        ELSE LET index == (bs.next_index + Min(free)) % NumSlots
             IN  [index |-> Some(index),
                  bs |-> [bs EXCEPT !.next_index = (index + 1) % NumSlots]]

\* BufferState::acquire_free_buffer_index: the index (or None) and the pool after the call.
acquire_free_buffer_index(bs) ==
    LET free == {o \in 0 .. (NumSlots - 1) : ~bs.in_use[(bs.next_index + o) % NumSlots]}
    IN  IF free = {}
        THEN [index |-> None, bs |-> bs]
        ELSE LET index == (bs.next_index + Min(free)) % NumSlots
             IN  [index |-> Some(index),
                  bs |-> [bs EXCEPT !.next_index = (index + 1) % NumSlots]]

\* A commit that leaves the dirty flag set.
commit_keeps_dirty(mon) ==
    IF mon.buffer_state = None
    THEN [mon |-> mon, res |-> "err", reqs |-> <<>>, buffer |-> None]
    ELSE
      LET buffer_state == Get(mon.buffer_state)
          acq == acquire_free_buffer_index(buffer_state)
          buffer_index == Get(acq.index)
          buf == BufferOf(acq.bs, buffer_index)
          m1  == [mon EXCEPT !.buffer_state = Some(acq.bs)]
          sel == [op |-> "acquired", monitor |-> mon.name, index |-> buffer_index,
                  in_use |-> buffer_state.in_use[buffer_index],
                  next_index |-> buffer_state.next_index, fills |-> buffer_state.fills]
          attach == [op |-> "attach", on |-> mon.surface, buffer |-> buf, x |-> 0, y |-> 0]
          damage == [op |-> "damage_buffer", on |-> mon.surface, x |-> 0, y |-> 0,
                     width |-> mon.dimensions[1], height |-> mon.dimensions[2]]
          cmt == [op |-> "commit", on |-> mon.surface]
      IN  IF acq.index = None
          THEN [mon |-> m1, res |-> "false", reqs |-> <<>>, buffer |-> None]
          ELSE IF mon.surface = None
          THEN [mon |-> m1, res |-> "err", reqs |-> <<sel>>, buffer |-> None]
          ELSE [mon |-> [m1 EXCEPT !.buffer_state =
                                      Some([acq.bs EXCEPT !.in_use[buffer_index] = TRUE,
                                                          !.fills = 0])],
                res |-> "true", reqs |-> <<sel, attach, damage, cmt>>,
                buffer |-> Some(buf)]

\* A commit that issues damage_buffer before attach.
commit_damage_before_attach(mon) ==
    IF mon.buffer_state = None
    THEN [mon |-> mon, res |-> "err", reqs |-> <<>>, buffer |-> None]
    ELSE
      LET buffer_state == Get(mon.buffer_state)
          acq == acquire_free_buffer_index(buffer_state)
          buffer_index == Get(acq.index)
          buf == BufferOf(acq.bs, buffer_index)
          m1  == [mon EXCEPT !.buffer_state = Some(acq.bs)]
          sel == [op |-> "acquired", monitor |-> mon.name, index |-> buffer_index,
                  in_use |-> buffer_state.in_use[buffer_index],
                  next_index |-> buffer_state.next_index, fills |-> buffer_state.fills]
          attach == [op |-> "attach", on |-> mon.surface, buffer |-> buf, x |-> 0, y |-> 0]
          damage == [op |-> "damage_buffer", on |-> mon.surface, x |-> 0, y |-> 0,
                     width |-> mon.dimensions[1], height |-> mon.dimensions[2]]
          cmt == [op |-> "commit", on |-> mon.surface]
      IN  IF acq.index = None
          THEN [mon |-> m1, res |-> "false", reqs |-> <<>>, buffer |-> None]
          ELSE IF mon.surface = None
          THEN [mon |-> m1, res |-> "err", reqs |-> <<sel>>, buffer |-> None]
          ELSE [mon |-> [m1 EXCEPT !.buffer_state =
                                      Some([acq.bs EXCEPT !.in_use[buffer_index] = TRUE,
                                                          !.dirty = FALSE,
                                                          !.fills = 0])],
                res |-> "true", reqs |-> <<sel, damage, attach, cmt>>,
                buffer |-> Some(buf)]

\* Monitor::commit: the monitor after the call, the result, the effects in program
\* order (the slot selection, then the requests) and the buffer handed to the peer.
commit(mon) ==
    IF mon.buffer_state = None
    THEN [mon |-> mon, res |-> "err", reqs |-> <<>>, buffer |-> None]
    ELSE
      LET buffer_state == Get(mon.buffer_state)
          acq == acquire_free_buffer_index(buffer_state)
          buffer_index == Get(acq.index)
          buf == BufferOf(acq.bs, buffer_index)
          m1  == [mon EXCEPT !.buffer_state = Some(acq.bs)]
          sel == [op |-> "acquired", monitor |-> mon.name, index |-> buffer_index,
                  in_use |-> buffer_state.in_use[buffer_index],
                  next_index |-> buffer_state.next_index, fills |-> buffer_state.fills]
          attach == [op |-> "attach", on |-> mon.surface, buffer |-> buf, x |-> 0, y |-> 0]
          damage == [op |-> "damage_buffer", on |-> mon.surface, x |-> 0, y |-> 0,
                     width |-> mon.dimensions[1], height |-> mon.dimensions[2]]
          cmt == [op |-> "commit", on |-> mon.surface]
      IN  IF acq.index = None
          THEN [mon |-> m1, res |-> "false", reqs |-> <<>>, buffer |-> None]
          ELSE IF mon.surface = None
          THEN [mon |-> m1, res |-> "err", reqs |-> <<sel>>, buffer |-> None]
          ELSE IF mon.dimensions[1] > I32Max \/ mon.dimensions[2] > I32Max
          THEN [mon |-> m1, res |-> "err", reqs |-> <<sel, attach>>, buffer |-> None]
          ELSE [mon |-> [m1 EXCEPT !.buffer_state =
                                      Some([acq.bs EXCEPT !.in_use[buffer_index] = TRUE,
                                                          !.dirty = FALSE,
                                                          !.fills = 0])],
                res |-> "true", reqs |-> <<sel, attach, damage, cmt>>,
                buffer |-> Some(buf)]

(***************************************************************************)
(* Initial state: Locker::default(), before the start-up roundtrip.        *)
(***************************************************************************)

Init ==
    /\ pc = "roundtrip"
    /\ lock_manager = FALSE
    /\ compositor = FALSE
    /\ shared_memory = FALSE
    /\ lock = FALSE
    /\ monitors = <<>>
    /\ state = "Idle"
    /\ auto_unlock_deadline = None
    /\ auto_unlock_sent = FALSE
    /\ dispatched = 0
    /\ serials = 0
    /\ peer_held = {}
    /\ peer_surfaces = {}
    /\ out = <<>>
    /\ unlocks = 0
    /\ sleeps = 0
    /\ late = 0

\* Positions of main inside its loop.
LoopPcs == {"read", "dispatch", "redraw", "check", "sleep"}

\* HashMap::insert
Insert(map, k, v) == [x \in (DOMAIN map) \cup {k} |-> IF x = k THEN v ELSE map[x]]

\* The orders in which a HashMap may be iterated.
Orders(S) == {ord \in [1 .. Cardinality(S) -> S] : \A i, j \in DOMAIN ord : i # j => ord[i] # ord[j]}

(***************************************************************************)
(* Dispatch<WlRegistry>::event                                             *)
(***************************************************************************)

OnGlobal(interface, name) ==
    /\ lock_manager' = (lock_manager \/ interface = "ext_session_lock_manager_v1")
    /\ compositor' = (compositor \/ interface = "wl_compositor")
    /\ shared_memory' = (shared_memory \/ interface = "wl_shm")
    /\ monitors' = IF interface = "wl_output"
                   THEN Insert(monitors, name, NewMonitor(name))
                   ELSE monitors

\* The peer gives every global a name of its own: an output is advertised under a
\* name no output was advertised under before.
FreshGlobal(interface, name) == interface = "wl_output" => name \notin DOMAIN monitors

\* A wl_registry.global event delivered by the start-up roundtrip.
RoundtripGlobal(interface, name) ==
    /\ pc = "roundtrip"
    /\ FreshGlobal(interface, name)
    /\ OnGlobal(interface, name)
    /\ out' = <<>>
    /\ UNCHANGED <<pc, lock, state, auto_unlock_deadline, auto_unlock_sent, dispatched,
                   serials, peer_held, peer_surfaces, unlocks, sleeps, late>>

(***************************************************************************)
(* main, from the end of the roundtrip to the entry of the loop.           *)
(***************************************************************************)

\* A start-up validation that does not ask for an output.
is_initialized_without_outputs == lock_manager /\ compositor /\ shared_memory

\* Locker::is_initialized
is_initialized == lock_manager /\ compositor /\ shared_memory /\ DOMAIN monitors # {}

\* A surface creation that stores the lock-surface and drops the surface.
create_lock_surface_only(mon) ==
    [mon EXCEPT !.lock_surface = Some(mon.name)]

\* Monitor::create_surface_and_lock: the surface and the lock-surface carry the
\* name of the output they were created for.
create_surface_and_lock(mon) ==
    [mon EXCEPT !.surface = Some(mon.name), !.lock_surface = Some(mon.name)]

SurfaceRequests(ord) ==
    [i \in 1 .. (2 * Len(ord)) |->
        IF i % 2 = 1
        THEN [op |-> "create_surface", id |-> ord[(i + 1) \div 2]]
        ELSE [op |-> "get_lock_surface", id |-> ord[i \div 2], surface |-> ord[i \div 2],
              output |-> ord[i \div 2]]]

\* A start-up that enters the loop without setting the lock state.
StartupKeepsIdle(roundtrip_ok) ==
    /\ pc = "roundtrip"
    /\ IF ~roundtrip_ok \/ ~is_initialized
       THEN /\ pc' = "err"
            /\ out' = <<>>
            /\ UNCHANGED <<lock, monitors, state, peer_surfaces>>
       ELSE \E ord \in Orders(DOMAIN monitors) :
            /\ monitors' = [n \in DOMAIN monitors |-> create_surface_and_lock(monitors[n])]
            /\ lock' = TRUE
            /\ state' = state
            /\ peer_surfaces' = DOMAIN monitors
            /\ out' = <<[op |-> "lock"]>> \o SurfaceRequests(ord)
            /\ pc' = "read"
    /\ UNCHANGED <<lock_manager, compositor, shared_memory, auto_unlock_deadline,
                   auto_unlock_sent, dispatched, serials, peer_held, unlocks, sleeps, late>>

Startup(roundtrip_ok) ==
    /\ pc = "roundtrip"
    /\ IF ~roundtrip_ok \/ ~is_initialized
       THEN /\ pc' = "err"
            /\ out' = <<>>
            /\ UNCHANGED <<lock, monitors, state, peer_surfaces>>
       ELSE \E ord \in Orders(DOMAIN monitors) :
            /\ monitors' = [n \in DOMAIN monitors |-> create_surface_and_lock(monitors[n])]
            /\ lock' = TRUE
            /\ state' = "Waiting"
            /\ peer_surfaces' = DOMAIN monitors
            /\ out' = <<[op |-> "lock"]>> \o SurfaceRequests(ord)
            /\ pc' = "read"
    /\ UNCHANGED <<lock_manager, compositor, shared_memory, auto_unlock_deadline,
                   auto_unlock_sent, dispatched, serials, peer_held, unlocks, sleeps, late>>

(***************************************************************************)
(* main's loop: flush and read.                                            *)
(***************************************************************************)

ReadStep(io) ==
    /\ pc = "read"
    /\ pc' = IF io = "error" THEN "err" ELSE "dispatch"
    /\ dispatched' = 0
    /\ out' = <<>>
    /\ UNCHANGED <<lock_manager, compositor, shared_memory, lock, monitors, state,
                   auto_unlock_deadline, auto_unlock_sent, serials, peer_held,
                   peer_surfaces, unlocks, sleeps, late>>

(***************************************************************************)
(* dispatch_pending: the handlers, one event at a time.                    *)
(***************************************************************************)

\* An event can be delivered by the running dispatch_pending call.
CanDispatch == pc = "dispatch" /\ dispatched < MaxBatch

\* The clock after d milliseconds.
After(deadline, d) ==
    IF deadline = None THEN None
    ELSE IF Get(deadline) > d THEN Some(Get(deadline) - d) ELSE Some(0)

\* A Locked handler that does not arm the deadline.
OnLockedNoDeadline ==
    /\ state' = "Locked"
    /\ UNCHANGED <<auto_unlock_deadline, sleeps, late>>

\* Dispatch<ExtSessionLockV1>::event, Locked
OnLocked ==
    /\ state' = "Locked"
    /\ auto_unlock_deadline' = Some(AutoUnlockMs)
    /\ sleeps' = 0
    /\ late' = 0

\* Dispatch<ExtSessionLockV1>::event, Finished
OnFinished ==
    /\ state' = "Finished"
    /\ UNCHANGED <<auto_unlock_deadline, sleeps, late>>

DispatchLocked ==
    /\ CanDispatch
    /\ OnLocked
    /\ dispatched' = dispatched + 1
    /\ out' = <<>>
    /\ UNCHANGED <<pc, lock_manager, compositor, shared_memory, lock, monitors,
                   auto_unlock_sent, serials, peer_held, peer_surfaces, unlocks>>

DispatchFinished ==
    /\ CanDispatch
    /\ OnFinished
    /\ dispatched' = dispatched + 1
    /\ out' = <<>>
    /\ UNCHANGED <<pc, lock_manager, compositor, shared_memory, lock, monitors,
                   auto_unlock_sent, serials, peer_held, peer_surfaces, unlocks>>

\* A release handler that routes by slot index alone: it frees the slot of that index
\* in every pool.
OnReleaseByIndex(tag) ==
    [n \in DOMAIN monitors |->
        IF monitors[n].buffer_state = None \/ tag.index >= NumSlots
        THEN monitors[n]
        ELSE [monitors[n] EXCEPT !.buffer_state[1].in_use[tag.index] = FALSE]]

\* A release handler that leaves every in_use flag as it is.
OnReleaseIgnored(tag) == monitors

\* A release handler that takes the slot index modulo the number of slots instead of
\* checking it.
OnReleaseWrapping(tag) ==
    IF tag.monitor_name \notin DOMAIN monitors
    THEN monitors
    ELSE IF monitors[tag.monitor_name].buffer_state = None
    THEN monitors
    ELSE [monitors EXCEPT
             ![tag.monitor_name].buffer_state[1].in_use[tag.index % NumSlots] = FALSE]

\* Dispatch<WlBuffer, BufferTag>::event, Release: the monitors after the handler.
OnRelease(tag) ==
    IF tag.monitor_name \notin DOMAIN monitors
    THEN monitors
    ELSE IF monitors[tag.monitor_name].buffer_state = None
    THEN monitors
    ELSE IF tag.index < NumSlots
    THEN [monitors EXCEPT ![tag.monitor_name].buffer_state[1].in_use[tag.index] = FALSE]
    ELSE monitors

\* The peer releases a buffer it holds; the event carries the buffer's BufferTag.
DispatchRelease(buffer) ==
    /\ CanDispatch
    /\ buffer \in peer_held
    /\ peer_held' = peer_held \ {buffer}
    /\ monitors' = OnRelease([monitor_name |-> buffer.monitor_name, index |-> buffer.index])
    /\ dispatched' = dispatched + 1
    /\ out' = <<>>
    /\ UNCHANGED <<pc, lock_manager, compositor, shared_memory, lock, state,
                   auto_unlock_deadline, auto_unlock_sent, serials, peer_surfaces, unlocks, sleeps, late>>

\* A wl_registry.global event delivered inside the loop.
DispatchGlobal(interface, name) ==
    /\ CanDispatch
    /\ FreshGlobal(interface, name)
    /\ OnGlobal(interface, name)
    /\ dispatched' = dispatched + 1
    /\ out' = <<>>
    /\ UNCHANGED <<pc, lock, state, auto_unlock_deadline, auto_unlock_sent, serials,
                   peer_held, peer_surfaces, unlocks, sleeps, late>>

\* A fall-through arm that disarms the auto-unlock deadline.
DispatchUnknownDisarms(source) ==
    /\ CanDispatch
    /\ dispatched' = dispatched + 1
    /\ out' = <<>>
    /\ auto_unlock_deadline' = None
    /\ UNCHANGED <<pc, lock_manager, compositor, shared_memory, lock, monitors, state,
                   auto_unlock_sent, serials, peer_held, peer_surfaces, unlocks, sleeps,
                   late>>

\* The handlers that only log, and the fall-through arms of the others.
DispatchUnknown(source) ==
    /\ CanDispatch
    /\ dispatched' = dispatched + 1
    /\ out' = <<>>
    /\ UNCHANGED <<pc, lock_manager, compositor, shared_memory, lock, monitors, state,
                   auto_unlock_deadline, auto_unlock_sent, serials, peer_held,
                   peer_surfaces, unlocks, sleeps, late>>

\* The fallback-dimension policy of the configure handler.
FinalWidth(width) == IF width = 0 THEN FallbackWidth ELSE width

\* A height policy that falls back to the width's default.
FinalHeightAsWidth(height) == IF height = 0 THEN FallbackWidth ELSE height

FinalHeight(height) == IF height = 0 THEN FallbackHeight ELSE height

\* A configure body that acknowledges the serial only after the commit.
ConfigureMonitorAckLast(mon, width, height, serial, alloc_ok) ==
    LET final_width == FinalWidth(width)
        final_height == FinalHeight(height)
        m1 == [mon EXCEPT !.dimensions = <<final_width, final_height>>]
        set == [op |-> "set_dimensions", monitor |-> mon.name,
                dimensions |-> <<final_width, final_height>>]
        ack == [op |-> "ack_configure", on |-> mon.lock_surface, serial |-> serial]
        fill == [op |-> "fill_solid_color", monitor |-> mon.name, serial |-> serial]
        m2 == [m1 EXCEPT !.buffer_state =
                           Some(fill_solid_color(NewBufferState(mon.name, serial)))]
        c == commit(m2)
    IN  IF final_width > I32Max \/ final_height > I32Max \/ ~alloc_ok
        THEN [mon |-> m1, effects |-> <<set>>, panic |-> TRUE, buffer |-> None]
        ELSE [mon |-> c.mon, effects |-> <<set, fill>> \o c.reqs \o <<ack>>,
              panic |-> FALSE, buffer |-> c.buffer]

\* A configure body that paints the pool again after the commit, leaving it dirty.
ConfigureMonitorFillAfterCommit(mon, width, height, serial, alloc_ok) ==
    LET final_width == FinalWidth(width)
        final_height == FinalHeight(height)
        m1 == [mon EXCEPT !.dimensions = <<final_width, final_height>>]
        set == [op |-> "set_dimensions", monitor |-> mon.name,
                dimensions |-> <<final_width, final_height>>]
        ack == [op |-> "ack_configure", on |-> mon.lock_surface, serial |-> serial]
        fill == [op |-> "fill_solid_color", monitor |-> mon.name, serial |-> serial]
        m2 == [m1 EXCEPT !.buffer_state =
                           Some(fill_solid_color(NewBufferState(mon.name, serial)))]
        c == commit(m2)
        m3 == [c.mon EXCEPT !.buffer_state = Some(fill_solid_color(Get(c.mon.buffer_state)))]
    IN  IF final_width > I32Max \/ final_height > I32Max \/ ~alloc_ok
        THEN [mon |-> m1, effects |-> <<set, ack>>, panic |-> TRUE, buffer |-> None]
        ELSE [mon |-> m3, effects |-> <<set, ack, fill>> \o c.reqs \o <<fill>>,
              panic |-> FALSE, buffer |-> c.buffer]

\* A configure body that stores and commits the new pool without filling it.
ConfigureMonitorNoFill(mon, width, height, serial, alloc_ok) ==
    LET final_width == FinalWidth(width)
        final_height == FinalHeight(height)
        m1 == [mon EXCEPT !.dimensions = <<final_width, final_height>>]
        set == [op |-> "set_dimensions", monitor |-> mon.name,
                dimensions |-> <<final_width, final_height>>]
        ack == [op |-> "ack_configure", on |-> mon.lock_surface, serial |-> serial]
        m2 == [m1 EXCEPT !.buffer_state = Some(NewBufferState(mon.name, serial))]
        c == commit(m2)
    IN  IF final_width > I32Max \/ final_height > I32Max \/ ~alloc_ok
        THEN [mon |-> m1, effects |-> <<set, ack>>, panic |-> TRUE, buffer |-> None]
        ELSE [mon |-> c.mon, effects |-> <<set, ack>> \o c.reqs, panic |-> FALSE,
              buffer |-> c.buffer]

\* The body of the configure handler for the monitor it matched: the monitor after
\* it, its effects in program order, whether it panicked, the buffer committed.
ConfigureMonitor(mon, width, height, serial, alloc_ok) ==
    LET final_width == FinalWidth(width)
        final_height == FinalHeight(height)
        m1 == [mon EXCEPT !.dimensions = <<final_width, final_height>>]
        set == [op |-> "set_dimensions", monitor |-> mon.name,
                dimensions |-> <<final_width, final_height>>]
        ack == [op |-> "ack_configure", on |-> mon.lock_surface, serial |-> serial]
        fill == [op |-> "fill_solid_color", monitor |-> mon.name, serial |-> serial]
        m2 == [m1 EXCEPT !.buffer_state =
                           Some(fill_solid_color(NewBufferState(mon.name, serial)))]
        c == commit(m2)
    IN  IF final_width > I32Max \/ final_height > I32Max \/ ~alloc_ok
        THEN [mon |-> m1, effects |-> <<set, ack>>, panic |-> TRUE, buffer |-> None]
        ELSE [mon |-> c.mon, effects |-> <<set, ack, fill>> \o c.reqs, panic |-> FALSE,
              buffer |-> c.buffer]

\* A match that takes any monitor that has a lock-surface, whatever the object the
\* event arrived on.
MatchingAnyLockSurface(proxy) == {n \in DOMAIN monitors : monitors[n].lock_surface # None}

\* The monitors whose lock-surface is the object the event arrived on.
Matching(proxy) == {n \in DOMAIN monitors : monitors[n].lock_surface = Some(proxy)}

\* A configure handler that waits for the locked event: while the state is not Locked
\* it leaves the event unanswered.
OnConfigureWhenLocked(proxy, width, height, alloc_ok) ==
    LET event == [op |-> "configure", on |-> proxy, width |-> width, height |-> height,
                  serial |-> serials + 1]
    IN  /\ serials' = serials + 1
        /\ IF Matching(proxy) = {} \/ state # "Locked"
           THEN /\ out' = <<event>>
                /\ UNCHANGED <<pc, monitors, peer_held>>
           ELSE LET n == CHOOSE x \in Matching(proxy) : TRUE
                    r == ConfigureMonitor(monitors[n], width, height, serials + 1, alloc_ok)
                IN  /\ monitors' = [monitors EXCEPT ![n] = r.mon]
                    /\ out' = <<event>> \o r.effects
                    /\ pc' = IF r.panic THEN "panic" ELSE pc
                    /\ peer_held' = IF r.buffer = None THEN peer_held
                                    ELSE peer_held \cup {Get(r.buffer)}

\* Dispatch<ExtSessionLockSurfaceV1>::event, Configure.  The serial of the event is
\* the number of configure events sent so far.
OnConfigure(proxy, width, height, alloc_ok) ==
    LET event == [op |-> "configure", on |-> proxy, width |-> width, height |-> height,
                  serial |-> serials + 1]
    IN  /\ serials' = serials + 1
        /\ IF Matching(proxy) = {}
           THEN /\ out' = <<event>>
                /\ UNCHANGED <<pc, monitors, peer_held>>
           ELSE LET n == CHOOSE x \in Matching(proxy) : TRUE
                    r == ConfigureMonitor(monitors[n], width, height, serials + 1, alloc_ok)
                IN  /\ monitors' = [monitors EXCEPT ![n] = r.mon]
                    /\ out' = <<event>> \o r.effects
                    /\ pc' = IF r.panic THEN "panic" ELSE pc
                    /\ peer_held' = IF r.buffer = None THEN peer_held
                                    ELSE peer_held \cup {Get(r.buffer)}

DispatchConfigure(proxy, width, height, alloc_ok) ==
    /\ CanDispatch
    /\ proxy \in peer_surfaces
    /\ serials < MaxConfigures
    /\ dispatched' = dispatched + 1
    /\ OnConfigure(proxy, width, height, alloc_ok)
    /\ UNCHANGED <<lock_manager, compositor, shared_memory, lock, state,
                   auto_unlock_deadline, auto_unlock_sent, peer_surfaces, unlocks, sleeps, late>>

\* dispatch_pending returns Ok(dispatched).
DispatchDone ==
    /\ pc = "dispatch"
    /\ pc' = "redraw"
    /\ out' = <<>>
    /\ UNCHANGED <<lock_manager, compositor, shared_memory, lock, monitors, state,
                   auto_unlock_deadline, auto_unlock_sent, dispatched, serials, peer_held,
                   peer_surfaces, unlocks, sleeps, late>>

\* dispatch_pending returns Err.
DispatchFail ==
    /\ pc = "dispatch"
    /\ pc' = "err"
    /\ out' = <<>>
    /\ UNCHANGED <<lock_manager, compositor, shared_memory, lock, monitors, state,
                   auto_unlock_deadline, auto_unlock_sent, dispatched, serials, peer_held,
                   peer_surfaces, unlocks, sleeps, late>>

(***************************************************************************)
(* main's loop: redraw, state check, sleep.                                *)
(***************************************************************************)

\* The redraw loop over monitors.values_mut() from position i of the iteration
\* order: the monitors after it, the effects, the buffers committed and whether
\* a commit returned Err (which ends the loop there).
RECURSIVE RedrawFrom(_, _, _)
RedrawFrom(ord, i, mons) ==
    IF i > Len(ord)
    THEN [monitors |-> mons, effects |-> <<>>, buffers |-> {}, err |-> FALSE]
    ELSE LET mon == mons[ord[i]]
             is_dirty == IF mon.buffer_state = None THEN FALSE
                         ELSE Get(mon.buffer_state).dirty
         IN  IF ~is_dirty
             THEN RedrawFrom(ord, i + 1, mons)
             ELSE LET c == commit(mon)
                      m1 == [mons EXCEPT ![ord[i]] = c.mon]
                      rest == RedrawFrom(ord, i + 1, m1)
                  IN  IF c.res = "err"
                      THEN [monitors |-> m1, effects |-> c.reqs, buffers |-> {},
                            err |-> TRUE]
                      ELSE [monitors |-> rest.monitors,
                            effects |-> c.reqs \o rest.effects,
                            buffers |-> (IF c.buffer = None THEN {} ELSE {Get(c.buffer)})
                                        \cup rest.buffers,
                            err |-> rest.err]

RedrawStep ==
    /\ pc = "redraw"
    /\ \E ord \in Orders(DOMAIN monitors) :
         LET r == RedrawFrom(ord, 1, monitors)
         IN  /\ monitors' = r.monitors
             /\ out' = r.effects
             /\ peer_held' = peer_held \cup r.buffers
             /\ pc' = IF r.err THEN "err" ELSE "check"
    /\ UNCHANGED <<lock_manager, compositor, shared_memory, lock, state,
                   auto_unlock_deadline, auto_unlock_sent, dispatched, serials,
                   peer_surfaces, unlocks, sleeps, late>>

\* Instant::now() >= deadline
DeadlineReached(deadline) == Get(deadline) = 0

\* The auto-unlock of the Locked arm is due: the deadline is armed and reached, and
\* the lock object exists.
AutoUnlockDue ==
    /\ auto_unlock_deadline # None
    /\ DeadlineReached(auto_unlock_deadline)
    /\ lock

\* The Locked arm of the state check that issues unlock_and_destroy whenever it is
\* due, without consulting auto_unlock_sent.
LockedArmNoFlag ==
    IF AutoUnlockDue
    THEN /\ pc' = "sleep"
         /\ out' = <<[op |-> "unlock_and_destroy"]>>
         /\ auto_unlock_sent' = TRUE
         /\ unlocks' = unlocks + 1
    ELSE /\ pc' = "sleep"
         /\ out' = <<>>
         /\ UNCHANGED <<auto_unlock_sent, unlocks>>

\* The Locked arm of the state check that leaves the loop once it has issued
\* unlock_and_destroy.
LockedArmBreaks ==
    IF auto_unlock_sent
    THEN /\ pc' = "read"
         /\ out' = <<>>
         /\ UNCHANGED <<auto_unlock_sent, unlocks>>
    ELSE IF AutoUnlockDue
    THEN /\ pc' = "ok"
         /\ out' = <<[op |-> "unlock_and_destroy"]>>
         /\ auto_unlock_sent' = TRUE
         /\ unlocks' = unlocks + 1
    ELSE /\ pc' = "sleep"
         /\ out' = <<>>
         /\ UNCHANGED <<auto_unlock_sent, unlocks>>

\* LockState::Locked => { ... }
LockedArm ==
    IF auto_unlock_sent
    THEN /\ pc' = "read"
         /\ out' = <<>>
         /\ UNCHANGED <<auto_unlock_sent, unlocks>>
    ELSE IF AutoUnlockDue
    THEN /\ pc' = "sleep"
         /\ out' = <<[op |-> "unlock_and_destroy"]>>
         /\ auto_unlock_sent' = TRUE
         /\ unlocks' = unlocks + 1
    ELSE /\ pc' = "sleep"
         /\ out' = <<>>
         /\ UNCHANGED <<auto_unlock_sent, unlocks>>

\* A state check whose auto-unlock also sets the lock state to Finished.
CheckStateUnlockFinishes ==
    /\ pc = "check"
    /\ CASE state = "Finished" ->
              /\ pc' = "ok"
              /\ out' = <<>>
              /\ UNCHANGED <<auto_unlock_sent, unlocks, state>>
         [] state = "Idle" ->
              /\ pc' = "err"
              /\ out' = <<>>
              /\ UNCHANGED <<auto_unlock_sent, unlocks, state>>
         [] state = "Waiting" ->
              /\ pc' = "sleep"
              /\ out' = <<>>
              /\ UNCHANGED <<auto_unlock_sent, unlocks, state>>
         [] state = "Locked" ->
              /\ LockedArm
              /\ state' = IF ~auto_unlock_sent /\ AutoUnlockDue THEN "Finished" ELSE state
    /\ UNCHANGED <<lock_manager, compositor, shared_memory, lock, monitors,
                   auto_unlock_deadline, dispatched, serials, peer_held, peer_surfaces,
                   sleeps, late>>

\* match locker.state
CheckState ==
    /\ pc = "check"
    /\ CASE state = "Finished" ->
              /\ pc' = "ok"
              /\ out' = <<>>
              /\ UNCHANGED <<auto_unlock_sent, unlocks>>
         [] state = "Idle" ->
              /\ pc' = "err"
              /\ out' = <<>>
              /\ UNCHANGED <<auto_unlock_sent, unlocks>>
         [] state = "Waiting" ->
              /\ pc' = "sleep"
              /\ out' = <<>>
              /\ UNCHANGED <<auto_unlock_sent, unlocks>>
         [] state = "Locked" -> LockedArm
    /\ UNCHANGED <<lock_manager, compositor, shared_memory, lock, monitors, state,
                   auto_unlock_deadline, dispatched, serials, peer_held, peer_surfaces,
                   sleeps, late>>

\* The duration main sleeps for when nothing was dispatched.
SleepFor(deadline) ==
    IF deadline = None
    THEN PollQuantumMs
    ELSE IF Get(deadline) > 0
    THEN (IF PollQuantumMs < Get(deadline) THEN PollQuantumMs ELSE Get(deadline))
    ELSE 0

\* The part of a sleep of ms milliseconds that lies past the deadline.
PastDeadline(deadline, ms) ==
    IF deadline = None THEN 0
    ELSE IF ms > Get(deadline) THEN ms - Get(deadline) ELSE 0

\* if dispatched == 0 { ... std::thread::sleep(sleep_for) }
SleepStep ==
    /\ pc = "sleep"
    /\ pc' = "read"
    /\ IF dispatched = 0 /\ SleepFor(auto_unlock_deadline) > 0
       THEN /\ auto_unlock_deadline # None => sleeps < MaxSleeps
            /\ out' = <<[op |-> "sleep", ms |-> SleepFor(auto_unlock_deadline)]>>
            /\ auto_unlock_deadline' =
                 After(auto_unlock_deadline, SleepFor(auto_unlock_deadline))
            /\ sleeps' = IF auto_unlock_deadline = None THEN sleeps ELSE sleeps + 1
            /\ late' = IF state = "Locked" /\ ~auto_unlock_sent
                       THEN late + PastDeadline(auto_unlock_deadline,
                                                SleepFor(auto_unlock_deadline))
                       ELSE late
       ELSE /\ out' = <<>>
            /\ UNCHANGED <<auto_unlock_deadline, sleeps, late>>
    /\ UNCHANGED <<lock_manager, compositor, shared_memory, lock, monitors, state,
                   auto_unlock_sent, dispatched, serials, peer_held, peer_surfaces,
                   unlocks>>

\* Time passes.  The clock is read by the state check and by the sleep computation
\* (and by the Locked handler, which only sets the deadline from it), so the time
\* that passed since the last read shows at these two places.
Elapse(d) ==
    /\ pc \in {"check", "sleep"}
    /\ auto_unlock_deadline # None
    /\ Get(auto_unlock_deadline) > 0
    /\ auto_unlock_deadline' = After(auto_unlock_deadline, d)
    /\ out' = <<>>
    /\ UNCHANGED <<pc, lock_manager, compositor, shared_memory, lock, monitors, state,
                   auto_unlock_sent, dispatched, serials, peer_held, peer_surfaces,
                   unlocks, sleeps, late>>

Next ==
    \/ \E i \in Interfaces, n \in OutputNames : RoundtripGlobal(i, n)
    \/ \E ok \in BOOLEAN : Startup(ok)
    \/ \E io \in {"ok", "would_block", "error"} : ReadStep(io)
    \/ DispatchLocked
    \/ DispatchFinished
    \/ \E b \in peer_held : DispatchRelease(b)
    \/ \E i \in Interfaces, n \in OutputNames : DispatchGlobal(i, n)
    \/ \E s \in UnknownSources : DispatchUnknown(s)
    \/ \E p \in peer_surfaces, w \in Widths, h \in Heights, a \in BOOLEAN :
          DispatchConfigure(p, w, h, a)
    \/ DispatchDone
    \/ DispatchFail
    \/ RedrawStep
    \/ CheckState
    \/ SleepStep
    \/ \E d \in ElapseSteps : Elapse(d)

Spec == Init /\ [][Next]_vars

\* The steps of the client's thread: everything but the passing of time.
Step ==
    \/ \E i \in Interfaces, n \in OutputNames : RoundtripGlobal(i, n)
    \/ \E ok \in BOOLEAN : Startup(ok)
    \/ \E io \in {"ok", "would_block", "error"} : ReadStep(io)
    \/ DispatchLocked
    \/ DispatchFinished
    \/ \E b \in peer_held : DispatchRelease(b)
    \/ \E i \in Interfaces, n \in OutputNames : DispatchGlobal(i, n)
    \/ \E s \in UnknownSources : DispatchUnknown(s)
    \/ \E p \in peer_surfaces, w \in Widths, h \in Heights, a \in BOOLEAN :
          DispatchConfigure(p, w, h, a)
    \/ DispatchDone
    \/ DispatchFail
    \/ RedrawStep
    \/ CheckState
    \/ SleepStep

Tick == \E d \in ElapseSteps : Elapse(d)

\* The thread keeps running while it has a step to take, and time keeps passing.
FairSpec == Spec /\ WF_vars(Step) /\ SF_vars(Tick)

(***************************************************************************)
(* The buffer pool on its own: Monitor::commit, the configure handler and  *)
(* the release handler applied in any order to outputs that have their     *)
(* surface and lock-surface, as any caller of Monitor::commit may do.      *)
(***************************************************************************)

PoolInit ==
    /\ pc = "pool"
    /\ lock_manager = TRUE
    /\ compositor = TRUE
    /\ shared_memory = TRUE
    /\ lock = TRUE
    /\ monitors = [n \in OutputNames |-> create_surface_and_lock(NewMonitor(n))]
    /\ state = "Waiting"
    /\ auto_unlock_deadline = None
    /\ auto_unlock_sent = FALSE
    /\ dispatched = 0
    /\ serials = 0
    /\ peer_held = {}
    /\ peer_surfaces = OutputNames
    /\ out = <<>>
    /\ unlocks = 0
    /\ sleeps = 0
    /\ late = 0

PoolConfigure(proxy, width, height) ==
    /\ pc = "pool"
    /\ proxy \in peer_surfaces
    /\ serials < MaxConfigures
    /\ OnConfigure(proxy, width, height, TRUE)
    /\ UNCHANGED <<lock_manager, compositor, shared_memory, lock, state,
                   auto_unlock_deadline, auto_unlock_sent, dispatched, peer_surfaces,
                   unlocks, sleeps, late>>

PoolCommit(n) ==
    /\ pc = "pool"
    /\ n \in DOMAIN monitors
    /\ LET c == commit(monitors[n])
       IN  /\ monitors' = [monitors EXCEPT ![n] = c.mon]
           /\ out' = c.reqs
           /\ peer_held' = IF c.buffer = None THEN peer_held
                           ELSE peer_held \cup {Get(c.buffer)}
    /\ UNCHANGED <<pc, lock_manager, compositor, shared_memory, lock, state,
                   auto_unlock_deadline, auto_unlock_sent, dispatched, serials,
                   peer_surfaces, unlocks, sleeps, late>>

PoolRelease(buffer) ==
    /\ pc = "pool"
    /\ buffer \in peer_held
    /\ peer_held' = peer_held \ {buffer}
    /\ monitors' = OnRelease([monitor_name |-> buffer.monitor_name, index |-> buffer.index])
    /\ out' = <<>>
    /\ UNCHANGED <<pc, lock_manager, compositor, shared_memory, lock, state,
                   auto_unlock_deadline, auto_unlock_sent, dispatched, serials,
                   peer_surfaces, unlocks, sleeps, late>>

PoolNext ==
    \/ \E p \in OutputNames, w \in Widths, h \in Heights : PoolConfigure(p, w, h)
    \/ \E n \in OutputNames : PoolCommit(n)
    \/ \E b \in peer_held : PoolRelease(b)

PoolSpec == PoolInit /\ [][PoolNext]_vars

(***************************************************************************)
(* The release handler on tags that name no slot of a current pool: the    *)
(* pool harness, and release events whose BufferTag names an output that   *)
(* is not in the map, an output without a pool or an index past the slots. *)
(***************************************************************************)

\* Output names a BufferTag may carry: those of the outputs and one of no output.
TagNames == OutputNames \cup {9}

\* Slot indices a BufferTag may carry: those of the slots and one past them.
TagIndices == 0 .. NumSlots

\* The tag names no slot of a current pool.
Stray(tag) ==
    IF tag.monitor_name \notin DOMAIN monitors THEN TRUE
    ELSE IF monitors[tag.monitor_name].buffer_state = None THEN TRUE
    ELSE tag.index \notin Slots

\* The release handler runs on a stray tag.
StrayRelease(tag) ==
    /\ pc = "pool"
    /\ Stray(tag)
    /\ monitors' = OnRelease(tag)
    /\ out' = <<[op |-> "release", monitor_name |-> tag.monitor_name, index |-> tag.index]>>
    /\ UNCHANGED <<pc, lock_manager, compositor, shared_memory, lock, state,
                   auto_unlock_deadline, auto_unlock_sent, dispatched, serials, peer_held,
                   peer_surfaces, unlocks, sleeps, late>>

ReleaseNext ==
    \/ PoolNext
    \/ \E n \in TagNames, i \in TagIndices : StrayRelease([monitor_name |-> n, index |-> i])

ReleaseSpec == PoolInit /\ [][ReleaseNext]_vars

(***************************************************************************)
(* main's loop on its own, entered with both outputs advertised and the    *)
(* lock not yet granted, with handlers that repaint: fill_solid_color is   *)
(* applied to the pool of an output between two redraw steps.  The code    *)
(* calls fill_solid_color from the configure handler only, just before a   *)
(* commit on a new pool; the redraw step of main serves any handler that   *)
(* leaves a pool dirty.  The peer sends as many configure events as there  *)
(* are outputs, to one lock-surface or to several.                         *)
(***************************************************************************)

LoopInit ==
    /\ pc = "read"
    /\ lock_manager = TRUE
    /\ compositor = TRUE
    /\ shared_memory = TRUE
    /\ lock = TRUE
    /\ monitors = [n \in OutputNames |-> create_surface_and_lock(NewMonitor(n))]
    /\ state = "Waiting"
    /\ auto_unlock_deadline = None
    /\ auto_unlock_sent = FALSE
    /\ dispatched = 0
    /\ serials = 0
    /\ peer_held = {}
    /\ peer_surfaces = OutputNames
    /\ out = <<>>
    /\ unlocks = 0
    /\ sleeps = 0
    /\ late = 0

\* A handler run by dispatch_pending calls fill_solid_color on the pool of output n.
DispatchFill(n) ==
    /\ CanDispatch
    /\ n \in DOMAIN monitors
    /\ monitors[n].buffer_state # None
    /\ Get(monitors[n].buffer_state).fills < MaxFills
    /\ monitors' = [monitors EXCEPT
                       ![n].buffer_state = Some(fill_solid_color(Get(monitors[n].buffer_state)))]
    /\ dispatched' = dispatched + 1
    /\ out' = <<[op |-> "fill_solid_color", monitor |-> n,
                 serial |-> Get(monitors[n].buffer_state).serial]>>
    /\ UNCHANGED <<pc, lock_manager, compositor, shared_memory, lock, state,
                   auto_unlock_deadline, auto_unlock_sent, serials, peer_held,
                   peer_surfaces, unlocks, sleeps, late>>

\* The steps of main's loop that are neither the delivery of an event nor the redraw.
LoopControl ==
    \/ \E io \in {"ok", "would_block", "error"} : ReadStep(io)
    \/ DispatchDone
    \/ DispatchFail
    \/ CheckState
    \/ SleepStep

\* The steps of main's loop that are not the delivery of an event.
LoopStep ==
    \/ LoopControl
    \/ RedrawStep

LoopNext ==
    \/ LoopStep
    \/ DispatchFinished
    \/ \E b \in peer_held : DispatchRelease(b)
    \/ \E p \in peer_surfaces, w \in Widths \ {0}, h \in Heights \ {0}, a \in BOOLEAN :
          serials < Cardinality(OutputNames) /\ DispatchConfigure(p, w, h, a)
    \/ \E n \in OutputNames : DispatchFill(n)

LoopSpec == LoopInit /\ [][LoopNext]_vars

\* The peer releases one of the buffers of output n that it holds.
ReleaseOf(n) == \E b \in peer_held : b.monitor_name = n /\ DispatchRelease(b)

\* The loop keeps stepping while it has a step to take (the redraw step can be taken
\* whenever main stands in front of it, so main does not stand there for ever), and
\* the peer does not hold on to the buffers of an output for ever: of every output it
\* keeps releasing buffers as long as the loop keeps reading while it holds some.
LoopFairSpec ==
    /\ LoopSpec
    /\ WF_vars(LoopControl)
    /\ []<>(pc # "redraw")
    /\ \A n \in OutputNames : SF_vars(ReleaseOf(n))

(***************************************************************************)
(* main's loop with a peer that grants the lock: the outputs are those of  *)
(* the start-up, the peer sends one configure to every lock-surface, keeps *)
(* the frame committed for an output, and sends locked once it has a frame *)
(* of every output.  Reads, dispatch_pending and the allocation of a pool  *)
(* may fail as in the program.                                             *)
(***************************************************************************)

\* The peer has a committed frame of output n.
PeerHasFrame(n) == \E b \in peer_held : b.monitor_name = n

\* The one configure event of lock-surface p: the peer has not configured p yet (the
\* output of p has no pool).
PeerConfigure(p) ==
    /\ p \in DOMAIN monitors
    /\ monitors[p].buffer_state = None
    /\ \E w \in Widths, h \in Heights, a \in BOOLEAN : DispatchConfigure(p, w, h, a)

\* The locked event, sent once and only when every output has a committed frame.
PeerLocked ==
    /\ state = "Waiting"
    /\ \A n \in DOMAIN monitors : PeerHasFrame(n)
    /\ DispatchLocked

PeerNext ==
    \/ LoopControl
    \/ RedrawStep
    \/ \E p \in peer_surfaces : PeerConfigure(p)
    \/ PeerLocked

PeerSpec == LoopInit /\ [][PeerNext]_vars

\* The loop keeps stepping while it has a step to take, and the peer does not hold
\* back for ever an event it can send again and again: the configure of a
\* lock-surface, and locked once it has all frames.
PeerFairSpec ==
    /\ PeerSpec
    /\ WF_vars(LoopControl)
    /\ []<>(pc # "redraw")
    /\ \A p \in OutputNames : SF_vars(PeerConfigure(p))
    /\ SF_vars(PeerLocked)

(***************************************************************************)
(* Properties.                                                             *)
(***************************************************************************)

HasPool(n) == n \in DOMAIN monitors /\ monitors[n].buffer_state # None

Pool(n) == Get(monitors[n].buffer_state)

\* The entries of the last step's effects with the given op.
Effects(op) == {k \in DOMAIN out : out[k].op = op}

\* C1: whatever the order of configure, commit and release calls, the slot
\* Monitor::commit selects has in_use = false when it is selected (so no in_use slot
\* is attached), and the in_use flag of a slot of a pool is cleared only by the
\* release handler run for that output and slot index.
C1_CommitTakesFreeSlot ==
    /\ [](\A k \in Effects("acquired") : ~out[k].in_use)
    /\ [][\A n \in DOMAIN monitors, i \in Slots :
            (/\ HasPool(n)
             /\ monitors'[n].buffer_state # None
             /\ Get(monitors'[n].buffer_state).serial = Pool(n).serial
             /\ Pool(n).in_use[i]
             /\ ~Get(monitors'[n].buffer_state).in_use[i])
            => \E b \in peer_held \ peer_held' : b.monitor_name = n /\ b.index = i]_vars

\* C1 witness: a commit has just selected slot 1 of a pool whose slot 0 was in use.
C1_Witness ==
    \E k \in Effects("acquired") :
        /\ out[k].index = 1
        /\ HasPool(out[k].monitor)
        /\ Pool(out[k].monitor).in_use[0]
        /\ Pool(out[k].monitor).in_use[1]

\* C2: a slot of an output's current pool whose buffer the peer holds (committed, not
\* yet released) has in_use = true.
C2_HeldSlotIsInUse ==
    \A n \in DOMAIN monitors :
        HasPool(n) =>
            \A i \in Slots : BufferOf(Pool(n), i) \in peer_held => Pool(n).in_use[i]

\* A monitor but for the in_use flag of slot i of its pool.
ButSlot(mon, i) ==
    IF mon.buffer_state = None THEN mon
    ELSE [mon EXCEPT !.buffer_state[1].in_use[i] = FALSE]

\* C3: a step that processes the release of a buffer tagged (o, i) leaves slot i of
\* output o's pool free and changes nothing else: the other slot of o, the pools,
\* dirty flags and cursors of all outputs, the lock state, the deadline and the
\* auto-unlock-sent flag are as before.
C3_ReleaseFrame ==
    [][\A b \in peer_held \ peer_held' :
          /\ DOMAIN monitors' = DOMAIN monitors
          /\ \A n \in DOMAIN monitors :
                IF n = b.monitor_name
                THEN /\ monitors'[n] = ButSlot(monitors[n], b.index)
                     /\ HasPool(n) => ~Get(monitors'[n].buffer_state).in_use[b.index]
                ELSE monitors'[n] = monitors[n]
          /\ state' = state
          /\ auto_unlock_deadline' = auto_unlock_deadline
          /\ auto_unlock_sent' = auto_unlock_sent]_vars

\* C3 witness: two outputs had slot 0 in use; the release for one of them has been
\* processed (its slot 0 is free again, cursor past it), the other is still in use.
C3_Witness ==
    \E a, b \in DOMAIN monitors :
        /\ a # b
        /\ HasPool(a)
        /\ HasPool(b)
        /\ ~Pool(a).in_use[0]
        /\ Pool(a).next_index = 1
        /\ BufferOf(Pool(a), 0) \notin peer_held
        /\ Pool(b).in_use[0]

\* C4: once the lock state is Finished it stays Finished.
C4_FinishedIsTerminal == [][state = "Finished" => state' = "Finished"]_vars

\* C5: every change of the lock state is Idle->Waiting (at the lock request of main),
\* Waiting->Locked (a locked event), or Waiting->Finished or Locked->Finished (a
\* finished event).
C5_TransitionTable ==
    [][state' # state =>
          \/ state = "Idle" /\ state' = "Waiting" /\ pc = "roundtrip"
          \/ state = "Waiting" /\ state' = "Locked" /\ pc = "dispatch"
          \/ state \in {"Waiting", "Locked"} /\ state' = "Finished" /\ pc = "dispatch"]_vars

\* C6: unlock_and_destroy is issued at most once in a session, and the step that
\* issues it is taken with the state Locked, the deadline armed and reached and no
\* unlock_and_destroy issued before; the request appears only in such a step.
C6_AutoUnlockOnce ==
    /\ [](unlocks <= 1)
    /\ [](Effects("unlock_and_destroy") # {} => unlocks = 1 /\ Len(out) = 1)
    /\ [][unlocks' # unlocks =>
            /\ state = "Locked"
            /\ auto_unlock_deadline # None
            /\ Get(auto_unlock_deadline) = 0
            /\ unlocks = 0
            /\ unlocks' = 1
            /\ Effects("unlock_and_destroy")' # {}]_vars

\* C6 witness: after the unlock_and_destroy a further locked event has re-armed the
\* deadline, that deadline has been reached too and the state check has run again.
C6_Witness ==
    /\ unlocks = 1
    /\ state = "Locked"
    /\ auto_unlock_deadline = Some(0)
    /\ sleeps > 0
    /\ pc = "read"
    /\ out = <<>>

\* C7: the loop ends with success only at the state check observing Finished; every
\* other end of the loop is a failure: an Err returned from the read, the dispatch,
\* the redraw or the Idle arm of the state check, or a panic of the configure
\* handler.  A step that issues unlock_and_destroy, and a step in which the deadline
\* is reached, stay in the loop.
C7_LoopExit ==
    [][/\ (pc' = "ok" /\ pc # "ok") => (pc = "check" /\ state = "Finished")
       /\ (pc = "check" /\ pc' # "check" /\ state = "Finished") => pc' = "ok"
       /\ (pc \in LoopPcs /\ pc' \notin LoopPcs /\ pc' # "ok") =>
             \/ pc' = "err" /\ pc \in {"read", "dispatch", "redraw"}
             \/ pc' = "err" /\ pc = "check" /\ state = "Idle"
             \/ pc' = "panic" /\ pc = "dispatch"
       /\ unlocks' # unlocks => pc' \in LoopPcs
       /\ (auto_unlock_deadline' # auto_unlock_deadline /\ auto_unlock_deadline' = Some(0))
             => pc' \in LoopPcs]_vars

\* C7 witness: the loop has ended with success after the auto-unlock was issued.
C7_Witness == pc = "ok" /\ unlocks = 1 /\ state = "Finished"

C9_FallbackDimensions ==
    \A k \in Effects("configure") :
        \A n \in DOMAIN monitors :
            monitors[n].lock_surface = Some(out[k].on) =>
                monitors[n].dimensions =
                    <<IF out[k].width = 0 THEN 1920 ELSE out[k].width,
                      IF out[k].height = 0 THEN 1080 ELSE out[k].height>>

\* C9 witness: a configure proposing width 0 and a nonzero height has been handled;
\* the width fell back and the height passed through.
C9_Witness ==
    \E k \in Effects("configure"), n \in DOMAIN monitors :
        /\ monitors[n].lock_surface = Some(out[k].on)
        /\ out[k].width = 0
        /\ out[k].height = 600
        /\ monitors[n].dimensions = <<1920, 600>>

\* C10: the step that handles a configure event issues exactly one ack_configure; it
\* carries the event's serial, goes to the lock-surface the event arrived on, follows
\* the assignment of the dimensions and precedes the attach and commit of the frame.
\* ack_configure is issued by no other step, and the serial of an event is new, so no
\* serial is acknowledged twice.
C10_AckEveryConfigure ==
    /\ \A k \in Effects("configure") :
          /\ k = 1
          /\ out[k].serial = serials
          /\ \E a \in Effects("ack_configure") :
                /\ Effects("ack_configure") = {a}
                /\ out[a].serial = out[k].serial
                /\ out[a].on = Some(out[k].on)
                /\ \E d \in Effects("set_dimensions") : d < a
                /\ \A c \in Effects("attach") \cup Effects("commit") : a < c
    /\ Effects("ack_configure") # {} => Effects("configure") # {}

\* C10 witness: the second configure of a session has been acknowledged and its
\* frame committed.
C10_Witness ==
    \E k \in Effects("configure"), a \in Effects("ack_configure"), c \in Effects("commit") :
        /\ out[k].serial = 2
        /\ out[a].serial = 2
        /\ a < c

\* C11: a step that handles a configure for an output that has a pool, and that
\* leaves the output's dimensions as they were, leaves the pool as it was: the same
\* pool, with the in_use flags of its two slots and its cursor unchanged.  A pool is
\* made only for an output without one or with different dimensions.
C11_PoolKeptOnSameDimensions ==
    [][\A k \in Effects("configure")', n \in DOMAIN monitors :
          (/\ monitors[n].lock_surface = Some(out'[k].on)
           /\ HasPool(n)
           /\ monitors'[n].dimensions = monitors[n].dimensions)
          => monitors'[n].buffer_state = monitors[n].buffer_state]_vars

\* Both slots of the pool of output n are in use.
Full(n) == HasPool(n) /\ \A i \in Slots : Pool(n).in_use[i]

\* The entries of the last step's effects that are requests on the surface of output n.
RequestsOn(n) == {k \in DOMAIN out : "on" \in DOMAIN out[k] /\ out[k].on = monitors[n].surface}

\* C12: Monitor::commit on a pool with both slots in use returns false, issues no
\* request and leaves the monitor as it is (in_use flags, cursor, dirty); the redraw
\* step of main, whose commit of a dirty pool with both slots in use is such a call,
\* leaves that pool as it is, issues nothing on its surface and hands no buffer of it
\* to the peer.
C12_CommitOnFullPool ==
    /\ [](\A n \in DOMAIN monitors :
            Full(n) =>
                /\ commit(monitors[n]).res = "false"
                /\ commit(monitors[n]).reqs = <<>>
                /\ commit(monitors[n]).buffer = None
                /\ commit(monitors[n]).mon = monitors[n])
    /\ [][\A n \in DOMAIN monitors :
            (pc = "redraw" /\ Full(n)) =>
                /\ monitors'[n] = monitors[n]
                /\ RequestsOn(n)' = {}
                /\ \A b \in peer_held' \ peer_held : b.monitor_name # n]_vars

\* C12 witness: the redraw step has just run over a dirty pool with both slots in use;
\* the pool is still dirty, both slots are still in use, nothing was issued on the
\* surface.
C12_Witness ==
    /\ pc = "check"
    /\ \E n \in DOMAIN monitors :
          /\ Full(n)
          /\ Pool(n).dirty
          /\ RequestsOn(n) = {}

\* The pool of output n with the cursor at c and the in_use flags u.
PoolWith(n, c, u) == [Pool(n) EXCEPT !.next_index = c, !.in_use = u]

\* C13: for every cursor c and all in_use flags of the two slots,
\* acquire_free_buffer_index returns slot c if it is free, else slot 1 - c if that one
\* is free, and sets the cursor to (returned index + 1) mod 2, changing nothing else;
\* with both slots in use it returns none and leaves the pool as it is.  The slot it
\* returns is never in use.  The selections made by the commits of a run follow the
\* same rule.
C13_AcquireRoundRobin ==
    /\ \A n \in DOMAIN monitors, c \in Slots, u \in [Slots -> BOOLEAN] :
          HasPool(n) =>
            LET bs == PoolWith(n, c, u)
                r == acquire_free_buffer_index(bs)
            IN  /\ ~u[c] => r.index = Some(c)
                /\ (u[c] /\ ~u[1 - c]) => r.index = Some(1 - c)
                /\ (u[c] /\ u[1 - c]) => (r.index = None /\ r.bs = bs)
                /\ r.index # None =>
                      /\ ~u[Get(r.index)]
                      /\ r.bs = [bs EXCEPT !.next_index = (Get(r.index) + 1) % 2]
    /\ \A k \in Effects("acquired") :
          /\ ~out[k].in_use
          /\ out[k].index # out[k].next_index => Pool(out[k].monitor).in_use[out[k].next_index]
          /\ Pool(out[k].monitor).next_index = (out[k].index + 1) % 2

\* C13 witness: a commit has just selected slot 0 with the cursor at 1, because slot 1
\* was in use; the cursor is at 1 again.
C13_Witness ==
    \E k \in Effects("acquired") :
        /\ out[k].next_index = 1
        /\ out[k].index = 0
        /\ Pool(out[k].monitor).next_index = 1
        /\ Pool(out[k].monitor).in_use[1]

\* C14: a Monitor::commit that finds a free slot i returns true and issues, on the
\* monitor's own surface and in this order, attach(buffer of slot i, 0, 0),
\* damage_buffer(0, 0, width, height) with the monitor's dimensions, and commit;
\* afterwards slot i, free before, is in use, the other slot's in_use flag is as
\* before and dirty is false.  The requests of every commit of a run appear in that
\* order, on the surface of the output whose slot was selected.
C14_CommitSequence ==
    /\ \A n \in DOMAIN monitors :
          (HasPool(n) /\ ~Full(n) /\ monitors[n].surface # None) =>
            LET c == commit(monitors[n])
                i == c.reqs[1].index
                after == Get(c.mon.buffer_state)
            IN  /\ c.res = "true"
                /\ Len(c.reqs) = 4
                /\ c.reqs[2] = [op |-> "attach", on |-> monitors[n].surface,
                                buffer |-> BufferOf(Pool(n), i), x |-> 0, y |-> 0]
                /\ c.reqs[3] = [op |-> "damage_buffer", on |-> monitors[n].surface,
                                x |-> 0, y |-> 0,
                                width |-> monitors[n].dimensions[1],
                                height |-> monitors[n].dimensions[2]]
                /\ c.reqs[4] = [op |-> "commit", on |-> monitors[n].surface]
                /\ c.buffer = Some(BufferOf(Pool(n), i))
                /\ ~Pool(n).in_use[i]
                /\ after.in_use = [Pool(n).in_use EXCEPT ![i] = TRUE]
                /\ ~after.dirty
    /\ \A k \in Effects("acquired") :
          LET n == out[k].monitor
          IN  /\ Len(out) >= k + 3
              /\ out[k + 1] = [op |-> "attach", on |-> Some(n),
                               buffer |-> BufferOf(Pool(n), out[k].index), x |-> 0, y |-> 0]
              /\ out[k + 2] = [op |-> "damage_buffer", on |-> Some(n), x |-> 0, y |-> 0,
                               width |-> monitors[n].dimensions[1],
                               height |-> monitors[n].dimensions[2]]
              /\ out[k + 3] = [op |-> "commit", on |-> Some(n)]
              /\ monitors[n].surface = Some(n)
              /\ Pool(n).in_use[out[k].index]
              /\ ~Pool(n).dirty
    /\ \A k \in Effects("attach") \cup Effects("damage_buffer") \cup Effects("commit") :
          \E a \in Effects("acquired") : a < k /\ k <= a + 3

\* C14 witness: a commit on a pool whose slot 0 was in use has attached the buffer of
\* slot 1, damaged the full 800 x 600 region and committed; slot 0 is still in use.
C14_Witness ==
    \E k \in Effects("attach") :
        /\ out[k].buffer.index = 1
        /\ Len(out) = k + 2
        /\ out[k + 1].op = "damage_buffer"
        /\ out[k + 1].width = 800
        /\ out[k + 1].height = 600
        /\ out[k + 2].op = "commit"
        /\ Pool(out[k].buffer.monitor_name).in_use[0]
        /\ Pool(out[k].buffer.monitor_name).in_use[1]
        /\ ~Pool(out[k].buffer.monitor_name).dirty

\* The pool of output n is dirty.
Dirty(n) == HasPool(n) /\ Pool(n).dirty

CommitsOn(n) == {k \in Effects("commit") : out[k].on = Some(n)}

\* C16: however often fill_solid_color set a pool's dirty flag since the pool's last
\* successful commit (a second call leaves the flag as the first one did), a step
\* commits the pool at most once, and only if the flag was set at least once since
\* that last commit; the commit leaves dirty false.  The redraw step of main commits a
\* dirty pool with a free slot exactly once and issues nothing for a pool that is not
\* dirty.
C16_OneCommitPerDirty ==
    /\ [](\A n \in DOMAIN monitors :
            /\ Cardinality(CommitsOn(n)) <= 1
            /\ HasPool(n) =>
                  fill_solid_color(fill_solid_color(Pool(n))).dirty
                      = fill_solid_color(Pool(n)).dirty)
    /\ [](\A k \in Effects("acquired") :
            /\ out[k].fills >= 1
            /\ Cardinality(CommitsOn(out[k].monitor)) = 1
            /\ ~Pool(out[k].monitor).dirty)
    /\ [][\A n \in DOMAIN monitors :
            (pc = "redraw" /\ HasPool(n)) =>
                IF ~Pool(n).dirty
                THEN monitors'[n] = monitors[n] /\ RequestsOn(n)' = {}
                ELSE ~Full(n) =>
                        /\ Cardinality(CommitsOn(n)') = 1
                        /\ ~Get(monitors'[n].buffer_state).dirty]_vars

\* C16 witness: the redraw step has committed, once, a pool whose dirty flag had been
\* set twice since its last commit; the pool is not dirty any more.
C16_Witness ==
    /\ pc = "check"
    /\ \E k \in Effects("acquired") :
          /\ out[k].fills = 2
          /\ Cardinality(CommitsOn(out[k].monitor)) = 1
          /\ ~Pool(out[k].monitor).dirty

\* No surface and no lock-surface exists, in the client or at the peer.
NoSurfaces ==
    /\ peer_surfaces = {}
    /\ \A n \in DOMAIN monitors :
          monitors[n].surface = None /\ monitors[n].lock_surface = None

\* C17: main leaves its start-up with the lock request sent only if a lock manager, a
\* compositor, a shared-memory allocator and at least one output were bound by the
\* roundtrip; if one of the four is missing it ends with an error, the lock state
\* Idle, no request sent, no lock object and no surface or lock-surface created.
C17_StartupValidation ==
    /\ [](Effects("lock") # {} =>
            lock_manager /\ compositor /\ shared_memory /\ DOMAIN monitors # {})
    /\ [][(pc = "roundtrip" /\ pc' # "roundtrip") =>
            IF lock_manager /\ compositor /\ shared_memory /\ DOMAIN monitors # {}
            THEN \/ pc' = "read" /\ state' = "Waiting" /\ out'[1] = [op |-> "lock"]
                 \/ pc' = "err" /\ state' = "Idle" /\ out' = <<>>
            ELSE /\ pc' = "err"
                 /\ state' = "Idle"
                 /\ out' = <<>>
                 /\ ~lock'
                 /\ NoSurfaces']_vars
    /\ []((pc = "err" /\ state = "Idle") => (~lock /\ NoSurfaces))

\* C17 witness: the roundtrip bound the lock manager, the compositor and the
\* shared-memory allocator but no output, and main has ended with an error, Idle and
\* without a lock object.
C17_Witness ==
    /\ pc = "err"
    /\ state = "Idle"
    /\ lock_manager
    /\ compositor
    /\ shared_memory
    /\ DOMAIN monitors = {}
    /\ ~lock
    /\ out = <<>>

\* Output n has a drawable surface and a lock-surface.
HasSurfaces(n) == monitors[n].surface # None /\ monitors[n].lock_surface # None

\* The surface and the lock-surface of an output are created in one step, once, for an
\* output that had none; an output stays in the map and its surface and lock-surface,
\* once created, stay the same; the step that sends the lock request creates one
\* surface and one lock-surface per output known at that moment.
SurfacesAtMostOnce ==
    /\ [][\A n \in DOMAIN monitors :
            /\ n \in DOMAIN monitors'
            /\ monitors[n].surface # None => monitors'[n].surface = monitors[n].surface
            /\ monitors[n].lock_surface # None =>
                  monitors'[n].lock_surface = monitors[n].lock_surface]_vars
    /\ [][\A k \in Effects("create_surface")' \cup Effects("get_lock_surface")' :
            /\ out'[k].id \in DOMAIN monitors
            /\ monitors[out'[k].id].surface = None
            /\ monitors[out'[k].id].lock_surface = None
            /\ monitors'[out'[k].id].surface = Some(out'[k].id)
            /\ monitors'[out'[k].id].lock_surface = Some(out'[k].id)]_vars
    /\ [](\A k \in Effects("create_surface") :
            \A j \in Effects("create_surface") : out[j].id = out[k].id => j = k)
    /\ [](\A k \in Effects("get_lock_surface") :
            \A j \in Effects("get_lock_surface") : out[j].id = out[k].id => j = k)
    /\ [](Effects("lock") # {} =>
            /\ Cardinality(Effects("create_surface")) = Cardinality(DOMAIN monitors)
            /\ Cardinality(Effects("get_lock_surface")) = Cardinality(DOMAIN monitors))

\* C18: for every output a surface and a lock-surface are created exactly once over
\* the life of the session, and never replaced: at most once (SurfacesAtMostOnce), and
\* every output of a session that has come to its end has got its pair.
C18_SurfacesOncePerOutput ==
    /\ SurfacesAtMostOnce
    /\ [](pc = "ok" => \A n \in DOMAIN monitors : HasSurfaces(n))

\* C19: once the lock request has been sent, every output in the output set has a
\* drawable surface and a lock-surface.
C19_EveryOutputHasSurfaces ==
    lock => \A n \in DOMAIN monitors : HasSurfaces(n)

\* C20: main is inside its loop only with the lock request sent and the lock state
\* different from Idle; a state check that observes Idle ends the loop with an error.
C20_LoopNeverIdle ==
    /\ [](pc \in LoopPcs => (state # "Idle" /\ lock))
    /\ [][(pc = "check" /\ state = "Idle" /\ pc' # pc) => pc' = "err"]_vars
    /\ [][(pc \notin LoopPcs /\ pc' \in LoopPcs) =>
            (pc = "roundtrip" /\ Effects("lock")' # {} /\ state' = "Waiting")]_vars

\* C20 witness: the state check of the first iteration runs with the lock request
\* sent and the state Waiting.
C20_Witness ==
    /\ pc = "check"
    /\ state = "Waiting"
    /\ lock
    /\ dispatched = 0
    /\ serials = 0

\* C21: a step that dispatches an event no handler recognises (an event of the lock
\* manager, the compositor, an output, a surface, the shared-memory allocator or a
\* shared-memory pool; a buffer event other than release; a lock-surface event other
\* than configure; a lock event other than locked and finished) leaves the session
\* state as it was (lock state, deadline, auto-unlock flag, the outputs with their
\* dimensions, pools, in_use and dirty flags and cursors, the bound globals and the
\* lock object), issues no request, hands no buffer to the peer and leaves main where
\* it was, inside dispatch_pending, with one more event counted.
C21_UnknownEventFrame ==
    [][(\E source \in UnknownSources : DispatchUnknown(source)) =>
          /\ state' = state
          /\ auto_unlock_deadline' = auto_unlock_deadline
          /\ auto_unlock_sent' = auto_unlock_sent
          /\ monitors' = monitors
          /\ lock' = lock
          /\ lock_manager' = lock_manager
          /\ compositor' = compositor
          /\ shared_memory' = shared_memory
          /\ peer_held' = peer_held
          /\ peer_surfaces' = peer_surfaces
          /\ unlocks' = unlocks
          /\ out' = <<>>
          /\ pc = "dispatch"
          /\ pc' = pc
          /\ dispatched' = dispatched + 1]_vars

\* C21 witness: dispatch_pending has delivered as many events as it delivers at most
\* and the last one has issued nothing, with the session Locked, the deadline reached,
\* the unlock sent, the frame of one output with the peer and the frame of another
\* released: there is a state for the event to leave as it is.
C21_Witness ==
    /\ pc = "dispatch"
    /\ dispatched = MaxBatch
    /\ out = <<>>
    /\ state = "Locked"
    /\ auto_unlock_deadline = Some(0)
    /\ auto_unlock_sent
    /\ \E a, b \in DOMAIN monitors :
          /\ HasPool(a)
          /\ HasPool(b)
          /\ BufferOf(Pool(a), 0) \in peer_held
          /\ Pool(a).in_use[0]
          /\ ~Pool(b).in_use[0]

\* C22: a step that handles a configure event applies it to the one output whose
\* lock-surface is the object the event arrived on: at most one output has that
\* lock-surface; of that output only the dimensions and the pool change; every request
\* of the step (ack_configure, attach, damage_buffer, commit) goes to that output's
\* lock-surface or surface, and only buffers of that output go to the peer; every
\* other output (dimensions, pool, in_use flags, dirty flag, cursor) is as before.
C22_ConfigureTouchesOneOutput ==
    [][\A k \in Effects("configure")' :
          /\ Cardinality({n \in DOMAIN monitors :
                            monitors[n].lock_surface = Some(out'[k].on)}) <= 1
          /\ DOMAIN monitors' = DOMAIN monitors
          /\ \A n \in DOMAIN monitors :
                IF monitors[n].lock_surface = Some(out'[k].on)
                THEN /\ monitors'[n] =
                          [monitors[n] EXCEPT !.dimensions = monitors'[n].dimensions,
                                              !.buffer_state = monitors'[n].buffer_state]
                     /\ \A j \in DOMAIN out' :
                           /\ "on" \in DOMAIN out'[j] /\ j # k =>
                                 out'[j].on \in {monitors[n].lock_surface, monitors[n].surface}
                           /\ "monitor" \in DOMAIN out'[j] => out'[j].monitor = n
                     /\ \A b \in peer_held' \ peer_held : b.monitor_name = n
                ELSE monitors'[n] = monitors[n]]_vars

\* C22 witness: the second configure of the session has been handled for one output
\* (new pool, frame committed) while the other output still has the pool of the first
\* configure with its committed slot in use.
C22_Witness ==
    \E k \in Effects("configure"), a, b \in DOMAIN monitors :
        /\ a # b
        /\ out[k].on = a
        /\ out[k].serial = 2
        /\ HasPool(a)
        /\ Pool(a).serial = 2
        /\ Effects("commit") # {}
        /\ HasPool(b)
        /\ Pool(b).serial = 1
        /\ Pool(b).in_use[0]
        /\ Pool(b).next_index = 1

\* C23: every buffer the client attaches comes from a pool whose two slots were filled
\* with the placeholder colour before the commit: the commit finds at least one
\* fill_solid_color call (which writes both slots) made on the pool since the pool was
\* created, and in the step that handles a configure the fill of the new pool precedes
\* the selection of the slot, the attach and the commit of the first frame.
C23_CommittedSlotWasFilled ==
    /\ \A k \in Effects("acquired") : out[k].fills >= 1
    /\ \A k \in Effects("attach") :
          \E f \in Effects("fill_solid_color") :
              /\ f < k
              /\ out[f].monitor = out[k].buffer.monitor_name
              /\ out[f].serial = out[k].buffer.serial
              /\ \A a \in Effects("acquired") \cup Effects("commit") : f < a

\* C23 witness: the second configure of the session has made a pool, filled it and then
\* attached and committed its slot 0.
C23_Witness ==
    \E f \in Effects("fill_solid_color"), k \in Effects("attach"), c \in Effects("commit") :
        /\ out[f].serial = 2
        /\ out[k].buffer.serial = 2
        /\ out[k].buffer.index = 0
        /\ f < k
        /\ k < c

\* C24 as stated, its last part: once unlock_and_destroy has been issued, main stays
\* inside its loop as long as the lock state is not Finished.
C24_LoopNeverEndsWithoutFinished ==
    (unlocks > 0 /\ state # "Finished") => pc \in LoopPcs

\* C24 amended: the step that issues unlock_and_destroy sets the auto-unlock-sent flag
\* and changes nothing else (the state stays Locked; the deadline, the outputs and
\* their pools, the lock object and the buffers held by the peer are as before) and
\* stays in the loop; the state becomes Finished only by a finished event delivered by
\* dispatch_pending; and after unlock_and_destroy main never ends with success while
\* the state is not Finished: it leaves the loop only with a failure (I/O or dispatch
\* error, panic of a handler).
C24_UnlockChangesOnlyFlag ==
    /\ [][unlocks' # unlocks =>
            /\ state = "Locked"
            /\ state' = "Locked"
            /\ ~auto_unlock_sent
            /\ auto_unlock_sent'
            /\ auto_unlock_deadline' = auto_unlock_deadline
            /\ monitors' = monitors
            /\ lock' = lock
            /\ peer_held' = peer_held
            /\ pc' \in LoopPcs]_vars
    /\ [][(state # "Finished" /\ state' = "Finished") =>
            (pc = "dispatch" /\ pc' = "dispatch" /\ dispatched' = dispatched + 1)]_vars
    /\ []((unlocks > 0 /\ state # "Finished") => pc \in LoopPcs \cup {"err", "panic"})
    /\ [][(unlocks > 0 /\ pc \in LoopPcs /\ pc' \notin LoopPcs) =>
            \/ pc' = "ok" /\ state = "Finished"
            \/ pc' = "err" /\ pc \in {"read", "dispatch"}
            \/ pc' = "panic" /\ pc = "dispatch"]_vars

\* C24 witness: unlock_and_destroy has just been issued; the state is still Locked,
\* the deadline still armed, and the frame committed for an output is still with the
\* peer.
C24_Witness ==
    /\ Effects("unlock_and_destroy") # {}
    /\ auto_unlock_sent
    /\ state = "Locked"
    /\ auto_unlock_deadline = Some(0)
    /\ pc = "sleep"
    /\ \E n \in DOMAIN monitors : HasPool(n) /\ BufferOf(Pool(n), 0) \in peer_held

\* The duration the sleep computation of C25 prescribes: min(16 ms, deadline - now)
\* with an armed deadline that lies in the future, 16 ms with no deadline armed, 0
\* with a deadline that has passed.
C25_Duration ==
    IF auto_unlock_deadline = None THEN 16
    ELSE IF Get(auto_unlock_deadline) > 0
    THEN Min({16, Get(auto_unlock_deadline)})
    ELSE 0

\* The sleep computation itself, where main reaches it: with nothing dispatched it
\* sleeps for C25_Duration if that is positive, otherwise and after an iteration that
\* dispatched a message it does not sleep; a sleep is taken at no other place, and it
\* does not end after a deadline that was armed and in the future when it began.
C25_SleepWhereComputed ==
    /\ [][(pc = "sleep" /\ pc' # "sleep") =>
            out' = IF dispatched = 0 /\ C25_Duration > 0
                   THEN <<[op |-> "sleep", ms |-> C25_Duration]>>
                   ELSE <<>>]_vars
    /\ [][Effects("sleep")' # {} =>
            /\ pc = "sleep"
            /\ dispatched = 0
            /\ auto_unlock_deadline # None => out'[1].ms <= Get(auto_unlock_deadline)]_vars

\* C25: an iteration of the loop that dispatched no message and does not leave the
\* loop sleeps for min(16 ms, deadline - now) with a deadline armed and in the
\* future, for 16 ms with no deadline armed and not at all with a deadline that has
\* passed; an iteration that dispatched a message does not sleep; no sleep ends after
\* a deadline that was armed and in the future when the sleep began.  An iteration
\* that dispatched nothing, stays in the loop and has a positive duration to sleep
\* for passes from the state check to the sleep computation.
C25_SleepDuration ==
    /\ C25_SleepWhereComputed
    /\ [][(pc = "check" /\ pc' \in LoopPcs \ {"check"} /\ dispatched = 0 /\ C25_Duration > 0)
            => pc' = "sleep"]_vars

C27_ConfigureCommitSucceeds ==
    /\ \A n \in DOMAIN monitors :
          HasSurfaces(n) =>
            LET fresh == fill_solid_color(NewBufferState(n, serials + 1))
                c == commit([monitors[n] EXCEPT !.buffer_state = Some(fresh)])
            IN  /\ fresh.in_use = [i \in Slots |-> FALSE]
                /\ fresh.next_index = 0
                /\ c.res = "true"
    /\ \A k \in Effects("configure") :
          pc # "panic" =>
              /\ HasPool(out[k].on)
              /\ Pool(out[k].on).serial = out[k].serial
              /\ Pool(out[k].on).in_use = [i \in Slots |-> i = 0]
              /\ Pool(out[k].on).next_index = 1
              /\ ~Pool(out[k].on).dirty
              /\ \E a \in Effects("acquired"), c \in Effects("commit") :
                    /\ out[a].index = 0
                    /\ out[c].on = Some(out[k].on)

\* C27 witness: an output that had a pool with its slot 0 still held by the peer has
\* been configured again; the new pool has slot 0 in use, slot 1 free, cursor 1 and
\* is not dirty.
C27_Witness ==
    \E k \in Effects("configure") :
        /\ out[k].serial = 2
        /\ HasPool(out[k].on)
        /\ Pool(out[k].on).serial = 2
        /\ Pool(out[k].on).in_use[0]
        /\ ~Pool(out[k].on).in_use[1]
        /\ Pool(out[k].on).next_index = 1
        /\ ~Pool(out[k].on).dirty
        /\ \E b \in peer_held : b.monitor_name = out[k].on /\ b.serial = 1

\* C28: between two steps of the program no pool is dirty, in particular when the
\* redraw step of main runs, so that the redraw step commits nothing; the dirty flag
\* is set and cleared inside one configure step.  Every surface commit is the commit
\* of the pool made by the configure handled in the same step (one commit per pool,
\* in the step that creates it), the slot committed is slot 0, and slot 1 of a pool
\* is never in use: at most one slot of a pool is in use.
C28_NeverDirtyAtRedraw ==
    /\ \A n \in DOMAIN monitors :
          HasPool(n) =>
              /\ ~Pool(n).dirty
              /\ ~Pool(n).in_use[1]
              /\ Cardinality({i \in Slots : Pool(n).in_use[i]}) <= 1
    /\ \A k \in Effects("acquired") \cup Effects("attach") \cup Effects("commit") :
          /\ Effects("configure") = {1}
          /\ pc = "dispatch"
    /\ \A k \in Effects("acquired") : out[k].index = 0 /\ out[k].monitor = out[1].on
    /\ \A k \in Effects("attach") :
          /\ out[k].buffer.index = 0
          /\ out[k].buffer.serial = out[1].serial
          /\ out[k].buffer.monitor_name = out[1].on
    /\ \A n \in DOMAIN monitors : Cardinality(CommitsOn(n)) <= 1
    /\ pc \in {"check", "err"} => Effects("commit") = {}

\* C28 witness: the redraw step has run over two pools, one of them with its frame
\* released already, and has issued nothing.
C28_Witness ==
    /\ pc = "check"
    /\ out = <<>>
    /\ \E a, b \in DOMAIN monitors :
          /\ a # b
          /\ HasPool(a)
          /\ HasPool(b)
          /\ Pool(a).in_use[0]
          /\ ~Pool(b).in_use[0]
          /\ Pool(b).next_index = 1

\* C29: an output that has a pool has a drawable surface and a lock-surface, and
\* Monitor::commit called on it does not return an error; the commit the configure
\* handler would make on an output that has its surfaces hands a buffer to the peer;
\* and every slot selection of a step (which advances the cursor) is followed in that
\* step by the commit on the surface of the same output, so no commit fails after it
\* has advanced the cursor, and main never ends with the error of a commit.
C29_PoolImpliesSurfaces ==
    /\ \A n \in DOMAIN monitors :
          HasPool(n) =>
              /\ HasSurfaces(n)
              /\ commit(monitors[n]).res \in {"true", "false"}
    /\ \A n \in DOMAIN monitors, w \in Widths, h \in Heights :
          monitors[n].lock_surface # None =>
              ConfigureMonitor(monitors[n], w, h, serials + 1, TRUE).buffer # None
    /\ \A k \in Effects("acquired") :
          /\ HasSurfaces(out[k].monitor)
          /\ \E c \in Effects("commit") :
                c = k + 3 /\ out[c].on = monitors[out[k].monitor].surface
    /\ pc = "err" => Effects("acquired") = {}

\* C29 witness: a frame of an output with surfaces and a pool has just been committed
\* while another output, advertised after the start-up, has neither surfaces nor a
\* pool.
C29_Witness ==
    \E a, b \in DOMAIN monitors :
        /\ a # b
        /\ HasPool(a)
        /\ HasSurfaces(a)
        /\ CommitsOn(a) # {}
        /\ ~HasSurfaces(b)
        /\ ~HasPool(b)

\* C30: a release whose tag names an output that is not in the output set, an output
\* without a pool, or a slot index outside {0, 1} is ignored: the outputs (every
\* in_use flag, dirty flag and cursor), the lock state, the deadline, the auto-unlock
\* flag and the buffers held by the peer are as before, and the handler returns to
\* its caller (no panic, no error).
C30_StrayReleaseIgnored ==
    [][\A k \in Effects("release")' :
          (IF out'[k].monitor_name \notin DOMAIN monitors THEN TRUE
           ELSE IF monitors[out'[k].monitor_name].buffer_state = None THEN TRUE
           ELSE out'[k].index \notin {0, 1})
          => /\ monitors' = monitors
             /\ state' = state
             /\ auto_unlock_deadline' = auto_unlock_deadline
             /\ auto_unlock_sent' = auto_unlock_sent
             /\ lock' = lock
             /\ peer_held' = peer_held
             /\ unlocks' = unlocks
             /\ pc' = pc]_vars

\* C30 witness: a release tagged with slot index 2 has been handled for an output
\* whose pool has both slots in use; they are still in use.
C30_Witness ==
    \E k \in Effects("release") :
        /\ out[k].index = 2
        /\ Full(out[k].monitor_name)

====
